---- MODULE Spec2Model ----
(***************************************************************************)
(* Real-time stream monitor of PatchEval's geminicli agent runner:         *)
(* RealTimeStreamMonitor, ProcessStreamReader / EnhancedProcessStream-     *)
(* Reader (stream_monitor.py) and the runner that owns the subprocess      *)
(* (gemini_runner_enhanced.py).                                            *)
(*                                                                         *)
(* Text is modelled as a sequence of lexical tokens.  Every token stands   *)
(* for a fixed piece of text (TokLen gives its length in characters), so   *)
(* str.find, startswith/endswith, json.loads, the brace scanner and the    *)
(* regular expressions are computed on the token sequence as the code      *)
(* computes them on the characters.                                        *)
(***************************************************************************)
EXTENDS Integers, Sequences, FiniteSets, TLC

(***************************************************************************)
(* Tokens.                                                                 *)
(*   {  }  [  ]  ,          the JSON punctuation                           *)
(*   tA    "type":"assistant"      tAs   "type": "assistant" (spaced)      *)
(*   tU    "type":"user"           tS    "type":"system"                   *)
(*   tTU   "type":"tool_use"                                               *)
(*   kM    "message":   kC  "content":   kU  "usage":   (a value follows)  *)
(*   mBad  "message":"x"           (message of the wrong type)             *)
(*   idT   "id":"toolu_1"   idC "id":"call_0_ab"   idS "id":"Bash_3"       *)
(*   idNum "id":5                                                          *)
(*   nBash "name":"Bash"    nRead "name":"Read"    nList "name":["a"]      *)
(*   in1   "input_tokens":1000000  in0 "input_tokens":0                    *)
(*   inBad "input_tokens":"a"                                              *)
(*   out1  "output_tokens":200000  out0 "output_tokens":0                  *)
(*   mS    "model":"claude-3-5-sonnet-20241022"                            *)
(*   mH    "model":"claude-3-5-haiku-20241022"     mX "model":"other"      *)
(*   w     LOG  (text that is not JSON)                                    *)
(*   PAD   30000 characters of text that is not JSON                       *)
(***************************************************************************)
Open == {"{", "["}

Close == {"}", "]"}

TypeTok == {"tA", "tAs", "tU", "tS", "tTU"}

IdTok == {"idT", "idC", "idS", "idNum"}

NameTok == {"nBash", "nRead", "nList"}

InTok == {"in1", "in0", "inBad"}

OutTok == {"out1", "out0"}

ModelTok == {"mS", "mH", "mX"}

\* a complete  "key":scalar  member
PairTok == TypeTok \cup IdTok \cup NameTok \cup InTok \cup OutTok \cup ModelTok \cup {"mBad"}

\* a  "key":  whose value (an object or an array) follows
KeyTok == {"kM", "kC", "kU"}

TokLen(t) ==
  CASE t \in {"{", "}", "[", "]", ","} -> 1
    [] t = "tA" -> 18
    [] t = "tAs" -> 19
    [] t = "tU" -> 13
    [] t = "tS" -> 15
    [] t = "tTU" -> 17
    [] t = "kM" -> 10
    [] t = "kC" -> 10
    [] t = "kU" -> 8
    [] t = "mBad" -> 13
    [] t = "idT" -> 14
    [] t = "idC" -> 16
    [] t = "idS" -> 13
    [] t = "idNum" -> 6
    [] t = "nBash" -> 13
    [] t = "nRead" -> 13
    [] t = "nList" -> 12
    [] t = "in1" -> 22
    [] t = "in0" -> 16
    [] t = "inBad" -> 18
    [] t = "out1" -> 22
    [] t = "out0" -> 17
    [] t = "mS" -> 36
    [] t = "mH" -> 35
    [] t = "mX" -> 15
    [] t = "w" -> 3
    [] t = "PAD" -> 30000
    [] OTHER -> 1

RECURSIVE StrLen(_)
\* len(s)
StrLen(s) == IF s = <<>> THEN 0 ELSE TokLen(Head(s)) + StrLen(Tail(s))

\* s[i:]
From(s, i) == SubSeq(s, i, Len(s))

Last(s) == s[Len(s)]

\* s.startswith('{') and s.endswith('}')
LooksComplete(s) == Len(s) > 0 /\ s[1] = "{" /\ Last(s) = "}"

(***************************************************************************)
(* json.loads: the JSON grammar over the tokens.  Parse walks the text     *)
(* once with the stack of open containers; the text is JSON exactly when   *)
(* it is one value with nothing after it.                                  *)
(***************************************************************************)
Pop(stack) == SubSeq(stack, 1, Len(stack) - 1)

AfterClose(stack) == IF Len(stack) = 1 THEN "end" ELSE "sep"

RECURSIVE Parse(_, _, _, _)
Parse(s, i, stack, expect) ==
  IF i > Len(s) THEN expect = "end"
  ELSE LET t == s[i] IN
    CASE expect = "value" ->
           IF t = "{" THEN Parse(s, i + 1, Append(stack, "o"), "member0")
           ELSE IF t = "[" THEN Parse(s, i + 1, Append(stack, "a"), "elem0")
           ELSE FALSE
      [] expect \in {"member0", "member"} ->
           IF t = "}" /\ expect = "member0" THEN Parse(s, i + 1, Pop(stack), AfterClose(stack))
           ELSE IF t \in PairTok THEN Parse(s, i + 1, stack, "sep")
           ELSE IF t \in KeyTok THEN Parse(s, i + 1, stack, "value")
           ELSE FALSE
      [] expect \in {"elem0", "elem"} ->
           IF t = "]" /\ expect = "elem0" THEN Parse(s, i + 1, Pop(stack), AfterClose(stack))
           ELSE IF t = "{" THEN Parse(s, i + 1, Append(stack, "o"), "member0")
           ELSE IF t = "[" THEN Parse(s, i + 1, Append(stack, "a"), "elem0")
           ELSE FALSE
      [] expect = "sep" ->
           IF t = "," THEN Parse(s, i + 1, stack, IF Last(stack) = "o" THEN "member" ELSE "elem")
           ELSE IF t = "}" /\ Last(stack) = "o" THEN Parse(s, i + 1, Pop(stack), AfterClose(stack))
           ELSE IF t = "]" /\ Last(stack) = "a" THEN Parse(s, i + 1, Pop(stack), AfterClose(stack))
           ELSE FALSE
      [] OTHER -> FALSE

\* json.loads(s) does not raise JSONDecodeError
IsJson(s) == Len(s) > 0 /\ Parse(s, 1, <<>>, "value")

SetMax(S) == CHOOSE x \in S : \A y \in S : y <= x

SetMin(S) == CHOOSE x \in S : \A y \in S : x <= y

\* the positions in S in increasing order
RECURSIVE Sorted(_)
Sorted(S) == IF S = {} THEN <<>> ELSE <<SetMin(S)>> \o Sorted(S \ {SetMin(S)})

RECURSIVE DepthsFrom(_, _, _)
DepthsFrom(s, i, open) ==
  IF i > Len(s) THEN <<>>
  ELSE LET here == IF s[i] \in Close THEN open - 1 ELSE open
       IN <<here>> \o DepthsFrom(s, i + 1, IF s[i] \in Open THEN here + 1 ELSE here)

\* the nesting depth of every position: the number of containers open around it
\* (a closing bracket has the depth of the bracket it closes)
Depths(s) == DepthsFrom(s, 1, 0)

\* the position closing the container opened at p (s is JSON, d its depths)
MatchOf(s, d, p) == SetMin({q \in (p + 1)..Len(s) : s[q] \in Close /\ d[q] = d[p]})

\* positions of what the container opened at p holds directly: its members'
\* pair and key tokens and the opening brackets of its nested values
Members(s, d, p) ==
  {j \in (p + 1)..(MatchOf(s, d, p) - 1) : s[j] \notin Close /\ s[j] # "," /\ d[j] = d[p] + 1}

\* the position of the last member of the object at p whose token is in toks,
\* 0 when there is none (a Python dict keeps the last of several equal keys)
KeyPos(s, d, p, toks) ==
  IF {j \in Members(s, d, p) : s[j] \in toks} = {} THEN 0
  ELSE SetMax({j \in Members(s, d, p) : s[j] \in toks})

TokAt(s, j) == IF j = 0 THEN "" ELSE s[j]

\* dict.get(key): the token of the member, "" when absent
Get(s, d, p, toks) == TokAt(s, KeyPos(s, d, p, toks))

After(j) == IF j = 0 THEN 0 ELSE j + 1

\* the position of the value of key (a key token) in the object at p, 0 when absent
ValueAt(s, d, p, key) == After(KeyPos(s, d, p, {key}))

(***************************************************************************)
(* What json.loads returns, as far as _handle_json_message reads it.       *)
(*   top       "dict" or "list"                                            *)
(*   type      the token of data['type'], "" when absent                   *)
(*   message   "absent", "dict", or "other" (a str or a list)              *)
(*   content   the items of message['content'] when it is a list, each     *)
(*             [dict, type, name, id] with the tokens of its fields        *)
(*   usage     "absent", "empty", "dict" or "list" (a non-empty list)      *)
(*   input_tokens, output_tokens, model   the tokens, "" when absent       *)
(***************************************************************************)
ItemAt(s, d, p) ==
  IF s[p] = "{"
  THEN [dict |-> TRUE, type |-> Get(s, d, p, TypeTok),
        name |-> Get(s, d, p, NameTok), id |-> Get(s, d, p, IdTok)]
  ELSE [dict |-> FALSE, type |-> "", name |-> "", id |-> ""]

ItemsAt(s, d, items) == [k \in 1..Len(items) |-> ItemAt(s, d, items[k])]

\* message['content'], c the position of its value
ContentAt(s, d, c) ==
  IF c # 0 /\ s[c] = "["
  THEN ItemsAt(s, d, Sorted({j \in Members(s, d, c) : s[j] \in Open}))
  ELSE <<>>

\* message['usage'], u the position of its value
UsageKind(s, d, u) ==
  IF u = 0 THEN "absent"
  ELSE IF Members(s, d, u) = {} THEN "empty"
  ELSE IF s[u] = "{" THEN "dict" ELSE "list"

UsageGet(s, d, u, toks) == IF u # 0 /\ s[u] = "{" THEN Get(s, d, u, toks) ELSE ""

NoMessage(top, ty, kind) ==
  [top |-> top, type |-> ty, message |-> kind, content |-> <<>>, usage |-> "absent",
   input_tokens |-> "", output_tokens |-> "", model |-> ""]

\* data when data['message'] is the dict at position message
WithMessage(s, d, ty, message, c, u) ==
  [top |-> "dict", type |-> ty, message |-> "dict",
   content |-> ContentAt(s, d, c),
   usage |-> UsageKind(s, d, u),
   input_tokens |-> UsageGet(s, d, u, InTok),
   output_tokens |-> UsageGet(s, d, u, OutTok),
   model |-> Get(s, d, message, ModelTok)]

\* data of the object s, msg the position of its "message" member
LoadsDict(s, d, ty, msg) ==
  IF msg = 0 THEN NoMessage("dict", ty, "absent")
  ELSE IF s[msg] = "mBad" \/ s[msg + 1] # "{" THEN NoMessage("dict", ty, "other")
  ELSE WithMessage(s, d, ty, msg + 1, ValueAt(s, d, msg + 1, "kC"), ValueAt(s, d, msg + 1, "kU"))

Loads(s, d) ==
  IF s[1] # "{" THEN NoMessage("list", "", "absent")
  ELSE LoadsDict(s, d, Get(s, d, 1, TypeTok), KeyPos(s, d, 1, {"kM", "mBad"}))

\* json.loads(s), for s that is JSON
JsonLoads(s) == Loads(s, Depths(s))

(***************************************************************************)
(* RealTimeStreamMonitor.  The monitor is a record of the object's fields; *)
(* every method is an operator from the monitor to the monitor.  The field *)
(* exc is TRUE while an exception travels up the call stack; fired lists   *)
(* the stop callbacks invoked since the current operation began.           *)
(* Costs are in millionths of a dollar, so that tokens / 1,000,000 * price *)
(* is tokens * price.                                                      *)
(***************************************************************************)
Tools == {"Bash", "Read"}

\* a tool name of the wrong type: "name":["a"]
ListName == "LIST"

\* a tool id of the wrong type: "id":5
NumId == "NUM"

IdFormats == {"unknown", "anthropic_standard", "proxy_format", "simplified", "custom"}

\* max_total_tool_calls=None, and float('inf') for a tool without a limit
None == -1

Inf == 1000000000

\* self.pricing, dollars per million tokens
Pricing(model) ==
  CASE model = "claude-3-5-haiku-20241022" -> [input |-> 1, output |-> 5]
    [] model = "kimi-k2-0711-preview" -> [input |-> 1, output |-> 5]
    [] model = "claude-3-5-sonnet-20241022" -> [input |-> 3, output |-> 15]
    [] OTHER -> [input |-> 3, output |-> 15]

NewMonitor(tool_limits, max_total_tool_calls, max_cost_usd) ==
  [tool_limits |-> tool_limits,
   max_total_calls |-> max_total_tool_calls,
   tool_calls |-> [t \in Tools |-> 0],
   total_calls |-> 0,
   id_format_stats |-> [f \in IdFormats |-> 0],
   max_cost_usd |-> max_cost_usd,
   current_cost_usd |-> 0,
   total_input_tokens |-> 0,
   total_output_tokens |-> 0,
   should_stop |-> FALSE,
   stop_callbacks |-> <<>>,
   json_buffer |-> <<>>,
   in_json_block |-> FALSE,
   fired |-> <<>>,
   exc |-> FALSE]

Raise(m) == [m EXCEPT !.exc = TRUE]

\* except Exception: pass
Catch(m) == [m EXCEPT !.exc = FALSE]

AddStopCallback(m, cb) == [m EXCEPT !.stop_callbacks = Append(@, cb)]

\* the callbacks called without the try around each call
RECURSIVE NotifyFromNoTry(_, _, _)
NotifyFromNoTry(m, reason, i) ==
  IF i > Len(m.stop_callbacks) THEN m
  ELSE IF m.stop_callbacks[i].raises
  THEN Raise([m EXCEPT !.fired = Append(@, [cb |-> m.stop_callbacks[i].id, reason |-> reason])])
  ELSE NotifyFromNoTry([m EXCEPT !.fired = Append(@, [cb |-> m.stop_callbacks[i].id, reason |-> reason])],
                       reason, i + 1)

\* for callback in self.stop_callbacks: try: callback(reason) except Exception: pass
\* a callback is [id, raises]
RECURSIVE NotifyFrom(_, _, _)
NotifyFrom(m, reason, i) ==
  IF i > Len(m.stop_callbacks) THEN m
  ELSE LET cb == m.stop_callbacks[i]
           called == [m EXCEPT !.fired = Append(@, [cb |-> cb.id, reason |-> reason])]
           after == IF cb.raises THEN Raise(called) ELSE called
       IN NotifyFrom(Catch(after), reason, i + 1)

NotifyStop(m, reason) == NotifyFrom(m, reason, 1)

DetectToolIdFormat(tool_id) ==
  CASE tool_id = "" -> "unknown"
    [] tool_id = "toolu_1" -> "anthropic_standard"
    [] tool_id = "call_0_ab" -> "proxy_format"
    [] tool_id = "Bash_3" -> "simplified"
    [] OTHER -> "custom"

\* the limits compared with > instead of >=
HandleToolCallOffByOne(m, tool_name, tool_id) ==
  IF tool_id = NumId THEN Raise(m)
  ELSE
    LET id_format == DetectToolIdFormat(tool_id)
        m1 == [m EXCEPT !.id_format_stats[id_format] = @ + 1]
    IN IF m1.max_total_calls # None /\ m1.total_calls > m1.max_total_calls
       THEN NotifyStop([m1 EXCEPT !.should_stop = TRUE],
                       [kind |-> "total", tool |-> "", limit |-> m1.max_total_calls])
       ELSE IF tool_name = ListName THEN Raise(m1)
       ELSE LET tool_limit == IF tool_name \in DOMAIN m1.tool_limits
                              THEN m1.tool_limits[tool_name] ELSE Inf
                current_count == m1.tool_calls[tool_name]
            IN IF current_count > tool_limit
               THEN NotifyStop([m1 EXCEPT !.should_stop = TRUE],
                               [kind |-> "tool", tool |-> tool_name, limit |-> tool_limit])
               ELSE [m1 EXCEPT !.tool_calls[tool_name] = @ + 1,
                               !.total_calls = @ + 1]

HandleToolCall(m, tool_name, tool_id) ==
  IF tool_id = NumId THEN Raise(m)
  ELSE
    LET id_format == DetectToolIdFormat(tool_id)
        m1 == [m EXCEPT !.id_format_stats[id_format] = @ + 1]
    IN IF m1.max_total_calls # None /\ m1.total_calls >= m1.max_total_calls
       THEN NotifyStop([m1 EXCEPT !.should_stop = TRUE],
                       [kind |-> "total", tool |-> "", limit |-> m1.max_total_calls])
       ELSE IF tool_name = ListName THEN Raise(m1)
       ELSE LET tool_limit == IF tool_name \in DOMAIN m1.tool_limits
                              THEN m1.tool_limits[tool_name] ELSE Inf
                current_count == m1.tool_calls[tool_name]
            IN IF current_count >= tool_limit
               THEN NotifyStop([m1 EXCEPT !.should_stop = TRUE],
                               [kind |-> "tool", tool |-> tool_name, limit |-> tool_limit])
               ELSE [m1 EXCEPT !.tool_calls[tool_name] = @ + 1,
                               !.total_calls = @ + 1]

TokensOf(tok) ==
  CASE tok = "in1" -> 1000000
    [] tok = "out1" -> 200000
    [] OTHER -> 0

ModelOf(tok) ==
  CASE tok = "mS" -> "claude-3-5-sonnet-20241022"
    [] tok = "mH" -> "claude-3-5-haiku-20241022"
    [] tok = "mX" -> "other"
    [] OTHER -> ""

\* self.current_cost_usd >= self.max_cost_usd, after the usage was added
CheckCostLimit(m) ==
  IF m.current_cost_usd >= m.max_cost_usd
  THEN NotifyStop([m EXCEPT !.should_stop = TRUE],
                  [kind |-> "cost", tool |-> "", limit |-> m.max_cost_usd])
  ELSE m

AddUsage(m, input_tokens, output_tokens, pricing) ==
  [m EXCEPT !.total_input_tokens = @ + input_tokens,
            !.total_output_tokens = @ + output_tokens,
            !.current_cost_usd = @ + input_tokens * pricing.input
                                   + output_tokens * pricing.output]

\* usage.get('input_tokens', 0) is the token usage.input_tokens; model is a model token
HandleUsageData(m, usage, model) ==
  IF usage.input_tokens = "inBad" THEN Raise(m)
  ELSE IF TokensOf(usage.input_tokens) > 0 \/ TokensOf(usage.output_tokens) > 0
  THEN CheckCostLimit(AddUsage(m, TokensOf(usage.input_tokens), TokensOf(usage.output_tokens),
                               Pricing(ModelOf(model))))
  ELSE m

NameOf(tok) ==
  CASE tok = "nBash" -> "Bash"
    [] tok = "nRead" -> "Read"
    [] tok = "nList" -> ListName
    [] OTHER -> ""

IdOf(tok) ==
  CASE tok = "idT" -> "toolu_1"
    [] tok = "idC" -> "call_0_ab"
    [] tok = "idS" -> "Bash_3"
    [] tok = "idNum" -> NumId
    [] OTHER -> ""

\* for item in content: ... self._handle_tool_call(tool_name, tool_id)
RECURSIVE HandleItems(_, _, _)
HandleItems(m, content, k) ==
  IF k > Len(content) \/ m.exc THEN m
  ELSE IF content[k].dict /\ content[k].type = "tTU" /\ NameOf(content[k].name) # ""
  THEN HandleItems(HandleToolCall(m, NameOf(content[k].name), IdOf(content[k].id)), content, k + 1)
  ELSE HandleItems(m, content, k + 1)

\* usage = message.get('usage', {}); if usage: self._handle_usage_data(...)
HandleMessageUsage(m, data) ==
  IF m.exc \/ data.usage \in {"absent", "empty"} THEN m
  ELSE IF data.usage = "list" THEN Raise(m)
  ELSE HandleUsageData(m, data, data.model)

HandleJsonMessage(m, data) ==
  IF data.top # "dict" THEN Raise(m)
  ELSE IF data.type \notin {"tA", "tAs"} THEN m
  ELSE IF data.message = "other" THEN Raise(m)
  ELSE HandleMessageUsage(HandleItems(m, data.content, 1), data)

\* True, False, or an exception other than JSONDecodeError (exc)
TryParseDirectJson(m, json_str) ==
  IF IsJson(json_str)
  THEN [mon |-> HandleJsonMessage(m, JsonLoads(json_str)), ret |-> TRUE]
  ELSE [mon |-> m, ret |-> FALSE]

BufferCeiling == 50000

\* the buffer emptied and the flag left as it is
ClearBufferKeepsFlag(m) == [m EXCEPT !.json_buffer = <<>>]

ClearBuffer(m) == [m EXCEPT !.json_buffer = <<>>, !.in_json_block = FALSE]

\* the buffer is cleared unless _handle_json_message raised
AfterBufferedMessage(m) == IF m.exc THEN Catch(m) ELSE ClearBuffer(m)

\* _try_parse_buffered_json without the ceiling
TryParseBufferedJsonNoCeiling(m) ==
  IF m.json_buffer = <<>> THEN m
  ELSE IF IsJson(m.json_buffer)
  THEN AfterBufferedMessage(HandleJsonMessage(m, JsonLoads(m.json_buffer)))
  ELSE m

TryParseBufferedJson(m) ==
  IF m.json_buffer = <<>> THEN m
  ELSE IF IsJson(m.json_buffer)
  THEN AfterBufferedMessage(HandleJsonMessage(m, JsonLoads(m.json_buffer)))
  ELSE IF StrLen(m.json_buffer) > BufferCeiling THEN ClearBuffer(m)
  ELSE m

\* line.find('{' + marker): the first position, 0 when there is none
Find(line, marker) ==
  IF {i \in 1..(Len(line) - 1) : line[i] = "{" /\ line[i + 1] = marker} = {} THEN 0
  ELSE SetMin({i \in 1..(Len(line) - 1) : line[i] = "{" /\ line[i + 1] = marker})

\* json_starts, in the order the loop tries them
JsonStarts == <<"tA", "tU", "tS">>

\* start_pos of the first marker of json_starts the line holds, 0 when it holds none
RECURSIVE FirstStart(_, _)
FirstStart(line, k) ==
  IF k > Len(JsonStarts) THEN 0
  ELSE IF Find(line, JsonStarts[k]) # 0 THEN Find(line, JsonStarts[k])
  ELSE FirstStart(line, k + 1)

SetBuffer(m, potential_json) ==
  [m EXCEPT !.json_buffer = potential_json, !.in_json_block = TRUE]

\* after self._try_parse_direct_json(potential_json)
AfterDirect(direct, potential_json) ==
  IF direct.mon.exc THEN Catch(direct.mon)
  ELSE IF direct.ret THEN direct.mon
  ELSE SetBuffer(direct.mon, potential_json)

\* the marker was found: potential_json = line[start_pos:]
StartBuffer(m, potential_json) ==
  IF Last(potential_json) = "}"
  THEN AfterDirect(TryParseDirectJson(m, potential_json), potential_json)
  ELSE SetBuffer(m, potential_json)

\* a line without a marker is appended whether or not a block is open
ProcessJsonBufferAlwaysAppends(m, line) ==
  IF FirstStart(line, 1) # 0
  THEN StartBuffer(TryParseBufferedJson(m), From(line, FirstStart(line, 1)))
  ELSE TryParseBufferedJson([m EXCEPT !.json_buffer = @ \o line])

ProcessJsonBuffer(m, line) ==
  IF FirstStart(line, 1) # 0
  THEN StartBuffer(TryParseBufferedJson(m), From(line, FirstStart(line, 1)))
  ELSE IF m.in_json_block
  THEN TryParseBufferedJson([m EXCEPT !.json_buffer = @ \o line])
  ELSE m

(***************************************************************************)
(* _detect_tool_calls_in_line.  tool_use_pattern is                        *)
(*   "type":"tool_use" [^}]* "id":"(..)" [^}]* "name":"(..)"               *)
(* and call_pattern is  "id":"(call_<n>_<hex>)" , "name":"(..)".           *)
(* Both want the id and the name to be strings.                            *)
(***************************************************************************)
StrIdTok == {"idT", "idC", "idS"}

StrNameTok == {"nBash", "nRead"}

NoBrace(line, i, k) == \A r \in (i + 1)..(k - 1) : line[r] # "}"

\* the (i, j, k) at which tool_use_pattern matches with tool_use at i
ToolUseMatches(line, i) ==
  {jk \in ((i + 1)..Len(line)) \X ((i + 1)..Len(line)) :
     /\ jk[1] < jk[2]
     /\ line[jk[1]] \in StrIdTok
     /\ line[jk[2]] \in StrNameTok
     /\ NoBrace(line, i, jk[2])}

\* re.findall is leftmost and greedy: of the matches at i, the one with the last
\* "id" and then the last "name"
LastId(line, i) == SetMax({jk[1] : jk \in ToolUseMatches(line, i)})

LastName(line, i, j) == SetMax({jk[2] : jk \in {x \in ToolUseMatches(line, i) : x[1] = j}})

\* the first match of tool_use_pattern is handled, the others are not
HandleFirstMatch(m, line, i, j) ==
  HandleToolCall(m, NameOf(line[LastName(line, i, j)]), IdOf(line[j]))

\* every match of call_pattern is handled
RECURSIVE HandleCalls(_, _, _, _)
HandleCalls(m, line, js, k) ==
  IF k > Len(js) \/ m.exc THEN m
  ELSE HandleCalls(HandleToolCall(m, NameOf(line[js[k] + 2]), IdOf(line[js[k]])), line, js, k + 1)

CallMatches(line) ==
  {j \in 1..(Len(line) - 2) :
     line[j] = "idC" /\ line[j + 1] = "," /\ line[j + 2] \in StrNameTok}

ToolUseStarts(line) ==
  {i \in 1..Len(line) : line[i] = "tTU" /\ ToolUseMatches(line, i) # {}}

DetectToolCallsInLine(m, line) ==
  IF ToolUseStarts(line) # {}
  THEN Catch(HandleFirstMatch(m, line, SetMin(ToolUseStarts(line)),
                              LastId(line, SetMin(ToolUseStarts(line)))))
  ELSE Catch(HandleCalls(m, line, Sorted(CallMatches(line)), 1))

(***************************************************************************)
(* _extract_and_handle_embedded_json: from each marker found, count braces *)
(* outside strings up to the brace that closes the first one, and parse    *)
(* that slice.  A token never ends inside a string, so in_string is false  *)
(* between tokens.                                                         *)
(***************************************************************************)
RECURSIVE BraceCount(_, _)
\* brace_count after the first i tokens of remaining
BraceCount(remaining, i) ==
  IF i = 0 THEN 0
  ELSE BraceCount(remaining, i - 1)
         + (IF remaining[i] = "{" THEN 1 ELSE 0) - (IF remaining[i] = "}" THEN 1 ELSE 0)

\* json_end: the number of tokens up to the closing brace, -1 when there is none
JsonEnd(remaining) ==
  LET ends == {i \in 1..Len(remaining) : remaining[i] = "}" /\ BraceCount(remaining, i) = 0}
  IN IF ends = {} THEN -1 ELSE SetMin(ends)

\* json_start_patterns, in the order the loop tries them
JsonStartPatterns == <<"tA", "tS", "tU">>

\* json_str = remaining[:json_end] of the marker found at start_idx
ExtractOne(m, remaining, json_end) ==
  IF json_end > 0 /\ IsJson(SubSeq(remaining, 1, json_end))
  THEN HandleJsonMessage(m, JsonLoads(SubSeq(remaining, 1, json_end)))
  ELSE m

ExtractAt(m, remaining) == ExtractOne(m, remaining, JsonEnd(remaining))

RECURSIVE ExtractFrom(_, _, _)
ExtractFrom(m, line, k) ==
  IF k > Len(JsonStartPatterns) \/ m.exc THEN m
  ELSE IF Find(line, JsonStartPatterns[k]) = 0 THEN ExtractFrom(m, line, k + 1)
  ELSE ExtractFrom(ExtractAt(m, From(line, Find(line, JsonStartPatterns[k]))), line, k + 1)

ExtractAndHandleEmbeddedJson(m, line) == Catch(ExtractFrom(m, line, 1))

\* any(marker in cleaned_line for marker in ['"type":"assistant"', '"tool_use"', '"name"'])
HasMarker(line) == \E i \in 1..Len(line) : line[i] \in {"tA", "tTU"} \cup NameTok

\* after self._detect_tool_calls_in_line(cleaned_line)
AfterDetect(m, cleaned_line) ==
  IF HasMarker(cleaned_line) THEN ExtractAndHandleEmbeddedJson(m, cleaned_line) ELSE m

\* after self._process_json_buffer(cleaned_line)
AfterJsonBuffer(m, cleaned_line) ==
  IF LooksComplete(cleaned_line) /\ IsJson(cleaned_line)
  THEN HandleJsonMessage(m, JsonLoads(cleaned_line))
  ELSE AfterDetect(DetectToolCallsInLine(m, cleaned_line), cleaned_line)

\* the body of _process_output_line's try block; line is already stripped
ProcessOutputLineBody(m, cleaned_line) ==
  IF cleaned_line = <<>> THEN m
  ELSE AfterJsonBuffer(ProcessJsonBuffer(m, cleaned_line), cleaned_line)

\* _process_output_line without its try/except
ProcessOutputLineUncaught(m, line) == ProcessOutputLineBody(m, line)

\* _process_output_line: try: ... except Exception: pass
ProcessOutputLine(m, line) == Catch(ProcessOutputLineBody(m, line))

RECURSIVE ProcessLines(_, _)
\* for line in lines: if line.strip(): self._process_output_line(line.strip())
ProcessLines(m, lines) ==
  IF lines = <<>> \/ m.exc THEN m
  ELSE ProcessLines(ProcessOutputLine(m, Head(lines)), Tail(lines))

\* analyze_completed_output without self.total_calls = 0
AnalyzeCompletedOutputKeepsTotal(m, lines) ==
  ProcessLines([m EXCEPT !.tool_calls = [t \in Tools |-> 0],
                         !.id_format_stats = [f \in IdFormats |-> 0]],
               lines)

\* analyze_completed_output that also starts from should_stop = False
AnalyzeCompletedOutputClearsStop(m, lines) ==
  ProcessLines([m EXCEPT !.tool_calls = [t \in Tools |-> 0],
                         !.total_calls = 0,
                         !.id_format_stats = [f \in IdFormats |-> 0],
                         !.should_stop = FALSE],
               lines)

\* analyze_completed_output without the three resets
AnalyzeCompletedOutputNoReset(m, lines) == ProcessLines(m, lines)

\* the monitor after analyze_completed_output(output_text); lines is output_text.split('\n')
AnalyzeCompletedOutput(m, lines) ==
  ProcessLines([m EXCEPT !.tool_calls = [t \in Tools |-> 0],
                         !.total_calls = 0,
                         !.id_format_stats = [f \in IdFormats |-> 0]],
               lines)

\* analysis_result
AnalysisResult(m) ==
  [detected_tool_calls |-> m.total_calls,
   tool_breakdown |-> m.tool_calls,
   id_format_distribution |-> m.id_format_stats,
   current_cost_usd |-> m.current_cost_usd,
   total_input_tokens |-> m.total_input_tokens,
   total_output_tokens |-> m.total_output_tokens]

\* get_statistics (the utilization percentages are left out)
GetStatistics(m) ==
  [tool_calls |-> m.tool_calls,
   total_tool_calls |-> m.total_calls,
   max_total_calls |-> m.max_total_calls,
   tool_limits |-> m.tool_limits,
   id_format_stats |-> m.id_format_stats,
   current_cost_usd |-> m.current_cost_usd,
   max_cost_usd |-> m.max_cost_usd,
   total_input_tokens |-> m.total_input_tokens,
   total_output_tokens |-> m.total_output_tokens]

(***************************************************************************)
(* The text the monitor is fed.                                            *)
(***************************************************************************)
\* {"type":"assistant","message":{"content":[{"type":"tool_use","id":..,"name":..}]}}
ToolEvent(ty, id, nm) ==
  <<"{", ty, ",", "kM", "{", "kC", "[", "{", "tTU", ",", id, ",", nm, "}", "]", "}", "}">>

\* {"type":"assistant","message":{"model":..,"usage":{"input_tokens":..,"output_tokens":..}}}
UsageEvent(ty, md, in, out) ==
  <<"{", ty, ",", "kM", "{", md, ",", "kU", "{", in, ",", out, "}", "}", "}">>

\* events whose fields have the wrong type
BadMessage == <<"{", "tA", ",", "mBad", "}">>

BadName == ToolEvent("tA", "idT", "nList")

BadId == ToolEvent("tAs", "idNum", "nBash")

BadUsage == UsageEvent("tAs", "mS", "inBad", "out0")

\* an unterminated event of more than 50,000 characters, in two pieces
LongOpen == <<"{", "tA", ",", "PAD">>

Lines ==
  {ToolEvent("tA", "idT", "nBash"),
   ToolEvent("tAs", "idC", "nRead"),
   ToolEvent("tAs", "idT", "nBash"),
   UsageEvent("tA", "mS", "in1", "out0"),
   UsageEvent("tAs", "mH", "in1", "out1"),
   <<"w">> \o ToolEvent("tA", "idS", "nRead"),
   SubSeq(ToolEvent("tA", "idT", "nBash"), 1, 8),
   SubSeq(ToolEvent("tA", "idT", "nBash"), 9, 17),
   BadMessage, BadName, BadId, BadUsage,
   LongOpen, <<"PAD">>, <<"w">>, <<"{", "tU", "}">>, <<>>}

\* output_text.split('\n') of the transcripts analyze_completed_output is given
Transcripts ==
  {<<>>,
   <<ToolEvent("tAs", "idT", "nBash")>>,
   <<ToolEvent("tA", "idT", "nBash"), ToolEvent("tAs", "idC", "nRead")>>,
   <<<<"w">>, UsageEvent("tA", "mS", "in1", "out0")>>}

(***************************************************************************)
(* Budget configurations: tool_limits, max_total_tool_calls, max_cost_usd  *)
(***************************************************************************)
NoLimits == [t \in {} |-> 0]

\* <<tool_limits, max_total_tool_calls, max_cost_usd>>; $10.00 is the default
\* of __init__ and $3.00 the price of one sonnet usage event of this model
Budgets ==
  {<<NoLimits, None, 10000000>>,
   <<NoLimits, 2, 10000000>>,
   <<[t \in {"Bash"} |-> 1], None, 3000000>>,
   <<[t \in Tools |-> IF t = "Bash" THEN 2 ELSE 0], 3, 10000000>>}

MaxSteps == 3

MaxCallbacks == 2

VARIABLES
  monitor,    \* the live RealTimeStreamMonitor of the run
  reference,  \* a second, fresh monitor, fed the same text in another way
  result,     \* what the last statistics query or analysis returned
  op,         \* the last operation: its name and its argument
  steps,      \* operations so far
  proc,       \* the subprocess of a monitored run and its output pipe
  reader,     \* the read_with_monitoring call of the run
  run,        \* execute_cve_repair: where it is and what it returns
  now,        \* the clock, in poll intervals of 0.1 s
  gate        \* a batch: the semaphore of run_batch_cves and its workers

vars == <<monitor, reference, result, op, steps, proc, reader, run, now, gate>>

rvars == <<proc, reader, run, now>>

\* no subprocess.Popen yet
NoProcess ==
  [alive |-> FALSE, stdout_open |-> FALSE, pipe |-> <<>>, written |-> 0, output |-> <<>>,
   exit_code |-> None, returncode |-> None, releases |-> 0]

\* read_with_monitoring not called yet; ingested is the history of the lines
\* handed to _process_output_line, in the order of the calls
NoReader ==
  [pc |-> "idle", start_time |-> 0, last_log_update |-> 0,
   output_lines |-> <<>>, output_chunk_buffer |-> <<>>, exc |-> "none",
   read_failed |-> FALSE, ingested |-> <<>>]

\* execute_cve_repair not called yet
NoRun ==
  [pc |-> "start", execution_stopped |-> FALSE, stop_reason |-> [kind |-> "none"],
   outcome |-> "none", result |-> [message |-> "", text |-> <<>>], log |-> <<>>]

\* the operations on a monitor alone have no run around them
\* run_batch_cves not called: no semaphore, no worker
NoGate == [value |-> 0, max_workers |-> 0, workers |-> <<>>]

NoRunYet == proc = NoProcess /\ reader = NoReader /\ run = NoRun /\ now = 0 /\ gate = NoGate

NoResult == [kind |-> "none"]

\* the operation starts with no callback fired yet
Begin(m) == [m EXCEPT !.fired = <<>>]

(***************************************************************************)
(* Spec: one monitor under any sequence of its public operations.          *)
(***************************************************************************)
Init ==
  /\ \E b \in Budgets : monitor = NewMonitor(b[1], b[2], b[3])
  /\ reference = NewMonitor(NoLimits, None, 10000000)
  /\ result = NoResult
  /\ op = [name |-> "init", arg |-> <<>>]
  /\ steps = 0
  /\ NoRunYet

Ingest(line) ==
  /\ steps < MaxSteps
  /\ monitor' = ProcessOutputLine(Begin(monitor), line)
  /\ op' = [name |-> "ingest", arg |-> line]
  /\ steps' = steps + 1
  /\ UNCHANGED <<result, reference, proc, reader, run, now, gate>>

Analyze(lines) ==
  /\ steps < MaxSteps
  /\ monitor' = AnalyzeCompletedOutput(Begin(monitor), lines)
  /\ result' = [kind |-> "analysis", value |-> AnalysisResult(monitor')]
  /\ op' = [name |-> "analyze", arg |-> lines]
  /\ steps' = steps + 1
  /\ UNCHANGED <<reference, proc, reader, run, now, gate>>

Statistics ==
  /\ steps < MaxSteps
  /\ result' = [kind |-> "statistics", value |-> GetStatistics(monitor)]
  /\ op' = [name |-> "statistics", arg |-> <<>>]
  /\ steps' = steps + 1
  /\ UNCHANGED <<monitor, reference, proc, reader, run, now, gate>>

Register(raises) ==
  /\ steps < MaxSteps
  /\ Len(monitor.stop_callbacks) < MaxCallbacks
  /\ monitor' = AddStopCallback(monitor, [id |-> Len(monitor.stop_callbacks) + 1, raises |-> raises])
  /\ op' = [name |-> "register", arg |-> <<>>]
  /\ steps' = steps + 1
  /\ UNCHANGED <<result, reference, proc, reader, run, now, gate>>

Next ==
  \/ \E line \in Lines : Ingest(line)
  \/ \E lines \in Transcripts : Analyze(lines)
  \/ Statistics
  \/ \E raises \in BOOLEAN : Register(raises)

Spec == Init /\ [][Next]_vars

(***************************************************************************)
(* SpecSplit: one event object, fed whole to one fresh monitor and in two  *)
(* pieces, cut at any place, to another.                                   *)
(***************************************************************************)
\* the same event with "name" before "id"
ToolEventNameFirst(ty, id, nm) ==
  <<"{", ty, ",", "kM", "{", "kC", "[", "{", "tTU", ",", nm, ",", id, "}", "]", "}", "}">>

SplitEvents ==
  {ToolEvent("tA", "idT", "nBash"),
   ToolEvent("tAs", "idT", "nBash"),
   ToolEvent("tA", "idC", "nRead"),
   ToolEventNameFirst("tA", "idT", "nBash"),
   ToolEventNameFirst("tAs", "idS", "nRead")}

InitSplit ==
  /\ monitor = NewMonitor(NoLimits, None, 10000000)
  /\ reference = NewMonitor(NoLimits, None, 10000000)
  /\ result = NoResult
  /\ \E e \in SplitEvents : \E cut \in 1..(Len(e) - 1) :
       op = [name |-> "split", arg |-> e, cut |-> cut, whole |-> FALSE]
  /\ steps = 0
  /\ NoRunYet

\* reference._process_output_line(event)
IngestWhole ==
  /\ ~op.whole
  /\ reference' = ProcessOutputLine(Begin(reference), op.arg)
  /\ op' = [op EXCEPT !.whole = TRUE]
  /\ UNCHANGED <<monitor, result, steps, proc, reader, run, now, gate>>

\* monitor._process_output_line(event[:cut])
IngestFirst ==
  /\ steps = 0
  /\ monitor' = ProcessOutputLine(Begin(monitor), SubSeq(op.arg, 1, op.cut))
  /\ steps' = 1
  /\ UNCHANGED <<reference, result, op, proc, reader, run, now, gate>>

\* monitor._process_output_line(event[cut:])
IngestSecond ==
  /\ steps = 1
  /\ monitor' = ProcessOutputLine(Begin(monitor), From(op.arg, op.cut + 1))
  /\ steps' = 2
  /\ UNCHANGED <<reference, result, op, proc, reader, run, now, gate>>

NextSplit == IngestWhole \/ IngestFirst \/ IngestSecond

SpecSplit == InitSplit /\ [][NextSplit]_vars

SplitDone == op.name = "split" /\ op.whole /\ steps = 2

(***************************************************************************)
(* SpecCap: a fresh monitor with a total-call cap and no per-tool limits,  *)
(* fed cap + 1 events of one tool_use item each.  op.log keeps, for every  *)
(* event, what the monitor showed when its ingestion returned.             *)
(***************************************************************************)
MaxCap == 3

CapEvents ==
  {ToolEvent("tA", "idT", "nBash"),
   ToolEvent("tAs", "idT", "nBash"),
   ToolEvent("tAs", "idC", "nRead")}

\* the tool of the one tool_use item of a CapEvents event
ToolOf(event) == NameOf(event[13])

InitCap ==
  /\ \E cap \in 1..MaxCap : monitor = NewMonitor(NoLimits, cap, 10000000)
  /\ reference = NewMonitor(NoLimits, None, 10000000)
  /\ result = NoResult
  /\ op = [name |-> "cap", arg |-> <<>>, log |-> <<>>]
  /\ steps = 0
  /\ NoRunYet

IngestEvent(event) ==
  /\ steps < monitor.max_total_calls + 1
  /\ monitor' = ProcessOutputLine(Begin(monitor), event)
  /\ op' = [op EXCEPT !.arg = event,
                      !.log = Append(@, [total |-> monitor'.total_calls,
                                         stop |-> monitor'.should_stop,
                                         counted |-> monitor'.tool_calls[ToolOf(event)]
                                                       - monitor.tool_calls[ToolOf(event)]])]
  /\ steps' = steps + 1
  /\ UNCHANGED <<reference, result, proc, reader, run, now, gate>>

NextCap == \E event \in CapEvents : IngestEvent(event)

SpecCap == InitCap /\ [][NextCap]_vars

(***************************************************************************)
(* SpecRun: one monitored run.  execute_cve_repair starts the subprocess   *)
(* and calls EnhancedProcessStreamReader.read_with_monitoring; the         *)
(* subprocess writes lines and exits when it likes.  Time passes while the *)
(* reader sleeps and while it is blocked in a read of the pipe.            *)
(***************************************************************************)
Timeout == 3
\* the clock runs past the 2 s after which pending chunks are flushed
MaxTime == 22
MaxWrites == 3

\* if current_time - last_log_update > 2.0, in poll intervals
FlushInterval == 20
\* len(output_chunk_buffer) >= 50
FlushCount == 50

RunLines == {ToolEvent("tAs", "idT", "nBash"), <<"w">>}

RunLimits == [t \in {"Bash"} |-> 1]

\* on_limit_reached, the callback execute_cve_repair registers
OnLimitReached == [id |-> 1, raises |-> FALSE]

\* on_limit_reached ran during the last ingestion
Notified(m) == \E k \in 1..Len(m.fired) : m.fired[k].cb = OnLimitReached.id

\* self.execution_stopped and self.stop_reason after the callbacks of m ran
AfterCallbacks(r, m) ==
  IF Notified(m)
  THEN [r EXCEPT !.execution_stopped = TRUE, !.stop_reason = m.fired[Len(m.fired)].reason]
  ELSE r

\* EnhancedProcessStreamReader._update_real_time_log with the runner attached
UpdateRealTimeLog(r, output_chunks) ==
  IF output_chunks = <<>> THEN r ELSE [r EXCEPT !.log = Append(@, output_chunks)]

\* a blocking read has nothing to return yet
Blocked ==
  \/ reader.pc = "readline" /\ proc.pipe = <<>> /\ proc.stdout_open
  \/ reader.pc = "drain" /\ proc.stdout_open

InitRun ==
  /\ monitor = NewMonitor(RunLimits, None, 10000000)
  /\ reference = NewMonitor(NoLimits, None, 10000000)
  /\ result = NoResult
  /\ op = [name |-> "run", arg |-> <<>>]
  /\ steps = 0
  /\ NoRunYet

\* execute_cve_repair up to the first pass of the read loop
Execute ==
  /\ run.pc = "start"
  /\ monitor' = AddStopCallback(monitor, OnLimitReached)
  /\ proc' = [proc EXCEPT !.alive = TRUE, !.stdout_open = TRUE]
  /\ reader' = [reader EXCEPT !.pc = "top", !.start_time = now, !.last_log_update = now]
  /\ run' = [run EXCEPT !.pc = "reading"]
  /\ UNCHANGED <<reference, result, op, steps, now, gate>>

\* the subprocess writes one line
ProcWrite(line) ==
  /\ proc.alive
  /\ proc.written < MaxWrites
  /\ proc' = [proc EXCEPT !.pipe = Append(@, line), !.written = @ + 1,
                          !.output = Append(@, line)]
  /\ UNCHANGED <<monitor, reference, result, op, steps, reader, run, now, gate>>

\* the subprocess exits, which closes its end of the pipe
ProcExit(code) ==
  /\ proc.alive
  /\ proc' = [proc EXCEPT !.alive = FALSE, !.stdout_open = FALSE, !.exit_code = code]
  /\ UNCHANGED <<monitor, reference, result, op, steps, reader, run, now, gate>>

\* the top of the while loop: timeout, poll(), should_stop
LoopTop ==
  /\ reader.pc = "top"
  /\ IF Timeout # 0 /\ now - reader.start_time > Timeout
     THEN /\ reader' = [reader EXCEPT !.pc = "drain", !.exc = "timeout"]
          /\ proc' = proc
     ELSE IF ~proc.alive
     THEN /\ reader' = [reader EXCEPT !.pc = "drain"]
          /\ proc' = [proc EXCEPT !.returncode = proc.exit_code,
                                  !.releases = IF proc.returncode = None THEN @ + 1 ELSE @]
     ELSE IF monitor.should_stop
     THEN /\ reader' = [reader EXCEPT !.pc = "drain"]
          /\ proc' = proc
     ELSE /\ reader' = [reader EXCEPT !.pc = "readline"]
          /\ proc' = proc
  /\ UNCHANGED <<monitor, reference, result, op, steps, run, now, gate>>

\* the age of the pending chunks left out of the condition
ChunksDueCountOnly(chunks) == Len(chunks) >= FlushCount

\* the chunk buffer is handed to the log when it is old or long enough
ChunksDue(chunks) ==
  now - reader.last_log_update > FlushInterval \/ Len(chunks) >= FlushCount

\* the line is checked for a stop before it is captured
AfterLineStopFirst(chunks, stop) ==
  [reader EXCEPT !.pc = IF stop THEN "drain" ELSE "sleep",
                 !.output_lines = IF stop THEN @ ELSE Append(@, <<Head(proc.pipe)>>),
                 !.ingested = Append(@, Head(proc.pipe)),
                 !.output_chunk_buffer = IF ChunksDue(chunks) THEN <<>> ELSE chunks,
                 !.last_log_update = IF ChunksDue(chunks) THEN now ELSE @]

\* the chunk buffer is not cleared after a flush
AfterLineKeepsChunks(chunks, stop) ==
  [reader EXCEPT !.pc = IF stop THEN "drain" ELSE "sleep",
                 !.output_lines = Append(@, <<Head(proc.pipe)>>),
                 !.ingested = Append(@, Head(proc.pipe)),
                 !.output_chunk_buffer = chunks,
                 !.last_log_update = IF ChunksDue(chunks) THEN now ELSE @]

\* the reader after a line was captured and ingested
AfterLine(chunks, stop) ==
  [reader EXCEPT !.pc = IF stop THEN "drain" ELSE "sleep",
                 !.output_lines = Append(@, <<Head(proc.pipe)>>),
                 !.ingested = Append(@, Head(proc.pipe)),
                 !.output_chunk_buffer = IF ChunksDue(chunks) THEN <<>> ELSE chunks,
                 !.last_log_update = IF ChunksDue(chunks) THEN now ELSE @]

\* line = self.process.stdout.readline() returns: a line, or '' at end of file
ReadLine ==
  /\ reader.pc = "readline"
  /\ ~Blocked
  /\ IF proc.pipe = <<>>
     THEN /\ reader' = [reader EXCEPT !.pc = "sleep"]
          /\ UNCHANGED <<monitor, proc, run, op, gate>>
     ELSE /\ monitor' = ProcessOutputLine(Begin(monitor), Head(proc.pipe))
          /\ proc' = [proc EXCEPT !.pipe = Tail(@)]
          /\ reader' = AfterLine(Append(reader.output_chunk_buffer, <<Head(proc.pipe)>>),
                                 monitor'.should_stop)
          /\ run' = IF ChunksDue(Append(reader.output_chunk_buffer, <<Head(proc.pipe)>>))
                    THEN UpdateRealTimeLog(AfterCallbacks(run, monitor'),
                                           Append(reader.output_chunk_buffer, <<Head(proc.pipe)>>))
                    ELSE AfterCallbacks(run, monitor')
          /\ op' = [name |-> "run", arg |-> Head(proc.pipe)]
  /\ UNCHANGED <<reference, result, steps, now, gate>>

\* readline raises (text that was read cannot be decoded, and what was read
\* with it is lost): except Exception: pass
ReadLineFails ==
  /\ reader.pc = "readline"
  /\ \E k \in 1..Len(proc.pipe) : proc' = [proc EXCEPT !.pipe = SubSeq(@, k + 1, Len(@))]
  /\ reader' = [reader EXCEPT !.pc = "sleep", !.read_failed = TRUE]
  /\ UNCHANGED <<monitor, reference, result, op, steps, run, now, gate>>

\* time.sleep(0.1)
Sleep ==
  /\ reader.pc = "sleep"
  /\ now < MaxTime
  /\ now' = now + 1
  /\ reader' = [reader EXCEPT !.pc = "top"]
  /\ UNCHANGED <<monitor, reference, result, op, steps, proc, run, gate>>

\* a poll interval passes while the reader is blocked in readline() or read()
Wait ==
  /\ Blocked
  /\ now < MaxTime
  /\ now' = now + 1
  /\ UNCHANGED <<monitor, reference, result, op, steps, proc, reader, run, gate>>

\* the reader when the finally block is over
AfterDrain(chunks) ==
  [reader EXCEPT !.pc = IF reader.exc = "none" THEN "returned" ELSE "failed",
                 !.output_lines = IF proc.pipe = <<>> THEN @ ELSE Append(@, proc.pipe),
                 !.ingested = @ \o proc.pipe,
                 !.output_chunk_buffer = chunks]

\* finally: remaining_output = self.process.stdout.read() returns at end of file
Drain ==
  /\ reader.pc = "drain"
  /\ ~Blocked
  /\ monitor' = ProcessLines(Begin(monitor), proc.pipe)
  /\ proc' = [proc EXCEPT !.pipe = <<>>]
  /\ reader' = AfterDrain(IF proc.pipe = <<>> THEN reader.output_chunk_buffer
                          ELSE Append(reader.output_chunk_buffer, proc.pipe))
  /\ run' = UpdateRealTimeLog(AfterCallbacks(run, monitor'), reader'.output_chunk_buffer)
  /\ UNCHANGED <<reference, result, op, steps, now, gate>>

\* read() raises: except: pass
DrainFails ==
  /\ reader.pc = "drain"
  /\ ~Blocked
  /\ proc.pipe # <<>>
  /\ proc' = [proc EXCEPT !.pipe = <<>>]
  /\ reader' = [reader EXCEPT !.pc = IF reader.exc = "none" THEN "returned" ELSE "failed",
                               !.read_failed = TRUE]
  /\ run' = UpdateRealTimeLog(run, reader.output_chunk_buffer)
  /\ UNCHANGED <<monitor, reference, result, op, steps, now, gate>>

\* ''.join(output_lines): the lines of the chunks, in order
RECURSIVE Join(_)
Join(chunks) == IF chunks = <<>> THEN <<>> ELSE Head(chunks) \o Join(Tail(chunks))

\* read_with_monitoring returned: the rest of _exec_with_real_time_monitoring
\* and of execute_cve_repair
Returned ==
  /\ run.pc = "reading"
  /\ reader.pc = "returned"
  /\ run' = IF proc.returncode \notin {None, 0} /\ ~run.execution_stopped
            THEN [run EXCEPT !.pc = "done", !.outcome = "error",
                             !.result = [message |-> "command exec fail", text |-> <<>>]]
            ELSE IF run.execution_stopped
            THEN [run EXCEPT !.pc = "done", !.outcome = "stopped",
                             !.result = [message |-> "stop execution",
                                         text |-> Join(reader.output_lines)]]
            ELSE [run EXCEPT !.pc = "done", !.outcome = "success",
                             !.result = [message |-> "", text |-> Join(reader.output_lines)]]
  /\ result' = [kind |-> "statistics", value |-> GetStatistics(monitor)]
  /\ UNCHANGED <<monitor, reference, op, steps, proc, reader, now, gate>>

\* read_with_monitoring raised TimeoutExpired: except subprocess.TimeoutExpired
TimedOut ==
  /\ run.pc = "reading"
  /\ reader.pc = "failed"
  /\ run' = [run EXCEPT !.pc = "done", !.outcome = "timeout",
                        !.result = [message |-> "Gemini execution timeout", text |-> <<>>]]
  /\ result' = [kind |-> "statistics", value |-> GetStatistics(monitor)]
  /\ UNCHANGED <<monitor, reference, op, steps, proc, reader, now, gate>>

NextRun ==
  \/ Execute
  \/ \E line \in RunLines : ProcWrite(line)
  \/ \E code \in {0, 1} : ProcExit(code)
  \/ LoopTop
  \/ ReadLine
  \/ ReadLineFails
  \/ Sleep
  \/ Wait
  \/ Drain
  \/ DrainFails
  \/ Returned
  \/ TimedOut

SpecRun == InitRun /\ [][NextRun]_vars

(***************************************************************************)
(* SpecCost: a monitor with a cost cap and the callbacks of Spec, fed      *)
(* usage events that are dispatched once each (a space follows the colon   *)
(* of "type").                                                             *)
(***************************************************************************)
MaxUsage == 3

CostCaps == {2000000, 3000000, 5000000}

CostEvents ==
  {UsageEvent("tAs", md, in, out) :
     md \in ModelTok, in \in {"in0", "in1"}, out \in {"out0", "out1"}}

\* the rates _handle_usage_data applies to the usage of an event line
PriceOf(line) == Pricing(ModelOf(JsonLoads(line).model))

\* what _handle_usage_data adds to the cost for the usage of event
CostOf(event) ==
  TokensOf(JsonLoads(event).input_tokens) * PriceOf(event).input
    + TokensOf(JsonLoads(event).output_tokens) * PriceOf(event).output

InitCost ==
  /\ \E cap \in CostCaps, raises \in BOOLEAN :
       monitor = AddStopCallback(NewMonitor(NoLimits, None, cap),
                                 [id |-> 1, raises |-> raises])
  /\ reference = NewMonitor(NoLimits, None, 10000000)
  /\ result = NoResult
  /\ op = [name |-> "init", arg |-> <<>>]
  /\ steps = 0
  /\ NoRunYet

IngestUsage(event) ==
  /\ steps < MaxUsage
  /\ monitor' = ProcessOutputLine(Begin(monitor), event)
  /\ op' = [name |-> "usage", arg |-> event]
  /\ steps' = steps + 1
  /\ UNCHANGED <<reference, result, proc, reader, run, now, gate>>

NextCost == \E event \in CostEvents : IngestUsage(event)

SpecCost == InitCost /\ [][NextCost]_vars

(***************************************************************************)
(* SpecOverflow: two monitors of the same budget.  Complete event lines    *)
(* are fed to both; an unterminated event of more than 50,000 characters   *)
(* is fed to `monitor` only, `reference` never sees it.                    *)
(***************************************************************************)
\* '{"type":"assistant",' and 60,000 characters with no closing brace
VeryLongOpen == <<"{", "tA", ",", "PAD", "PAD">>

CompleteEvents == CapEvents \cup {UsageEvent("tA", "mS", "in1", "out0")}

InitOverflow ==
  /\ \E b \in Budgets :
       /\ monitor = NewMonitor(b[1], b[2], b[3])
       /\ reference = NewMonitor(b[1], b[2], b[3])
  /\ result = NoResult
  /\ op = [name |-> "init", arg |-> <<>>, fragments |-> 0]
  /\ steps = 0
  /\ NoRunYet

IngestFragment ==
  /\ steps < MaxSteps
  /\ monitor' = ProcessOutputLine(Begin(monitor), VeryLongOpen)
  /\ op' = [name |-> "fragment", arg |-> VeryLongOpen, fragments |-> op.fragments + 1]
  /\ steps' = steps + 1
  /\ UNCHANGED <<reference, result, proc, reader, run, now, gate>>

IngestBoth(event) ==
  /\ steps < MaxSteps
  /\ monitor' = ProcessOutputLine(Begin(monitor), event)
  /\ reference' = ProcessOutputLine(Begin(reference), event)
  /\ op' = [op EXCEPT !.name = "event", !.arg = event]
  /\ steps' = steps + 1
  /\ UNCHANGED <<result, proc, reader, run, now, gate>>

NextOverflow ==
  \/ IngestFragment
  \/ \E event \in CompleteEvents : IngestBoth(event)

SpecOverflow == InitOverflow /\ [][NextOverflow]_vars

(***************************************************************************)
(* SpecReplay: a live run ingests a transcript line by line; then          *)
(* analyze_completed_output is given the same transcript, on the live      *)
(* monitor (as the runner calls it) or on a fresh one of the same budget.  *)
(***************************************************************************)
MaxTranscript == 3

\* lines that are whole: events alone, after log text, before log text, and log text
ReplayLines ==
  CompleteEvents
    \cup {<<"w">> \o ToolEvent("tA", "idS", "nRead"),
          ToolEvent("tA", "idT", "nBash") \o <<"w">>,
          <<"w">>}

\* the tool counts a monitor shows
CountsOf(m) == [tool_calls |-> m.tool_calls, total_calls |-> m.total_calls]

InitReplay ==
  /\ \E b \in Budgets :
       /\ monitor = NewMonitor(b[1], b[2], b[3])
       /\ reference = NewMonitor(b[1], b[2], b[3])
  /\ result = NoResult
  /\ op = [name |-> "init", lines |-> <<>>, live |-> CountsOf(reference)]
  /\ steps = 0
  /\ NoRunYet

IngestLive(line) ==
  /\ steps < MaxTranscript
  /\ result = NoResult
  /\ monitor' = ProcessOutputLine(Begin(monitor), line)
  /\ op' = [name |-> "ingest", lines |-> Append(op.lines, line), live |-> CountsOf(monitor')]
  /\ steps' = steps + 1
  /\ UNCHANGED <<reference, result, proc, reader, run, now, gate>>

AnalyzeRun(fresh) ==
  /\ result = NoResult
  /\ IF fresh
     THEN /\ reference' = AnalyzeCompletedOutput(Begin(reference), op.lines)
          /\ result' = [kind |-> "analysis", value |-> AnalysisResult(reference')]
          /\ monitor' = monitor
     ELSE /\ monitor' = AnalyzeCompletedOutput(Begin(monitor), op.lines)
          /\ result' = [kind |-> "analysis", value |-> AnalysisResult(monitor')]
          /\ reference' = reference
  /\ op' = [op EXCEPT !.name = IF fresh THEN "analyze fresh" ELSE "analyze live"]
  /\ UNCHANGED <<steps, proc, reader, run, now, gate>>

NextReplay ==
  \/ \E line \in ReplayLines : IngestLive(line)
  \/ \E fresh \in BOOLEAN : AnalyzeRun(fresh)

SpecReplay == InitReplay /\ [][NextReplay]_vars

(***************************************************************************)
(* SpecGate: run_batch_cves hands one run_single_cve per record to a pool  *)
(* of max_workers threads and gives them all one Semaphore(max_workers).   *)
(* A worker pulls its image (pull_image_with_retry, up to MAX_RETRIES      *)
(* retries) and starts its container (run_work_container_no_mount), each   *)
(* inside "with semaphore:", then runs the agent.  value is the counter of *)
(* the semaphore; a worker is [pc, attempt, stage].                        *)
(***************************************************************************)
MaxRecords == 3
MaxWorkers == 2

\* MAX_RETRIES
MAX_RETRIES == 3

\* semaphore = threading.Semaphore(max_workers); executor.submit for every record
InitGate ==
  /\ monitor = NewMonitor(NoLimits, None, 10000000)
  /\ reference = NewMonitor(NoLimits, None, 10000000)
  /\ result = NoResult
  /\ op = [name |-> "batch", arg |-> <<>>]
  /\ steps = 0
  /\ proc = NoProcess /\ reader = NoReader /\ run = NoRun /\ now = 0
  /\ \E n \in 1..MaxWorkers :
       gate = [value |-> n, max_workers |-> n,
               workers |-> [w \in 1..MaxRecords |->
                              [pc |-> "queued", attempt |-> 0, stage |-> "initialization"]]]

\* a thread of the pool is free and takes the record: run_single_cve up to
\* the call of pull_image_with_retry
RunSingleCve(w) ==
  /\ gate.workers[w].pc = "queued"
  /\ Cardinality({v \in DOMAIN gate.workers :
                    gate.workers[v].pc \notin {"queued", "returned"}}) < gate.max_workers
  /\ gate' = [gate EXCEPT !.workers[w] = [pc |-> "pull", attempt |-> 0, stage |-> "docker_setup"]]
  /\ UNCHANGED <<monitor, reference, result, op, steps, proc, reader, run, now>>

\* pull_image_with_retry: with semaphore, entered
PullEnter(w) ==
  /\ gate.workers[w].pc = "pull"
  /\ gate.value > 0
  /\ gate' = [gate EXCEPT !.value = @ - 1, !.workers[w].pc = "pulling"]
  /\ UNCHANGED <<monitor, reference, result, op, steps, proc, reader, run, now>>

\* client.images.pull returned: return, which leaves the with block; then
\* run_work_container_no_mount up to its with block
PullReturn(w) ==
  /\ gate.workers[w].pc = "pulling"
  /\ gate' = [gate EXCEPT !.value = @ + 1,
                          !.workers[w] = [pc |-> "start", attempt |-> 0, stage |-> "work_container"]]
  /\ UNCHANGED <<monitor, reference, result, op, steps, proc, reader, run, now>>

\* the failed pull leaves the semaphore as it found it
PullRaiseKeepsPermit(w) ==
  /\ gate.workers[w].pc = "pulling"
  /\ gate' = IF gate.workers[w].attempt = MAX_RETRIES
             THEN [gate EXCEPT !.workers[w].pc = "returned"]
             ELSE [gate EXCEPT !.workers[w].pc = "pull", !.workers[w].attempt = @ + 1]
  /\ UNCHANGED <<monitor, reference, result, op, steps, proc, reader, run, now>>

\* client.images.pull raised: the with block is left, then the last attempt
\* raises RuntimeError, which run_single_cve turns into a failed result, and
\* an earlier one sleeps and tries again
PullRaise(w) ==
  /\ gate.workers[w].pc = "pulling"
  /\ gate' = IF gate.workers[w].attempt = MAX_RETRIES
             THEN [gate EXCEPT !.value = @ + 1, !.workers[w].pc = "returned"]
             ELSE [gate EXCEPT !.value = @ + 1, !.workers[w].pc = "pull",
                               !.workers[w].attempt = @ + 1]
  /\ UNCHANGED <<monitor, reference, result, op, steps, proc, reader, run, now>>

\* run_work_container_no_mount: with semaphore, entered
StartEnter(w) ==
  /\ gate.workers[w].pc = "start"
  /\ gate.value > 0
  /\ gate' = [gate EXCEPT !.value = @ - 1, !.workers[w].pc = "starting"]
  /\ UNCHANGED <<monitor, reference, result, op, steps, proc, reader, run, now>>

\* the with block is left by return container.id, or by the RuntimeError
\* that run_single_cve turns into a failed result
StartLeave(w, started) ==
  /\ gate.workers[w].pc = "starting"
  /\ gate' = IF started
             THEN [gate EXCEPT !.value = @ + 1,
                               !.workers[w].pc = "agent", !.workers[w].stage = "gemini_execution"]
             ELSE [gate EXCEPT !.value = @ + 1, !.workers[w].pc = "returned"]
  /\ UNCHANGED <<monitor, reference, result, op, steps, proc, reader, run, now>>

\* the rest of run_single_cve: the agent runs and the result is returned
Finish(w) ==
  /\ gate.workers[w].pc = "agent"
  /\ gate' = [gate EXCEPT !.workers[w].pc = "returned", !.workers[w].stage = "completed"]
  /\ UNCHANGED <<monitor, reference, result, op, steps, proc, reader, run, now>>

NextGate ==
  \/ \E w \in 1..MaxRecords : RunSingleCve(w)
  \/ \E w \in 1..MaxRecords : PullEnter(w)
  \/ \E w \in 1..MaxRecords : PullReturn(w)
  \/ \E w \in 1..MaxRecords : PullRaise(w)
  \/ \E w \in 1..MaxRecords : StartEnter(w)
  \/ \E w \in 1..MaxRecords, started \in BOOLEAN : StartLeave(w, started)
  \/ \E w \in 1..MaxRecords : Finish(w)

SpecGate == InitGate /\ [][NextGate]_vars

(***************************************************************************)
(* The properties.                                                         *)
(***************************************************************************)

\* C1: an event object with one tool_use item, cut in two at any place and fed
\* in two consecutive calls, leaves the tool counts of the same object fed
\* whole: one call counted for its tool, total_calls = 1.
C1_SplitEqualsWhole ==
  SplitDone =>
    /\ monitor.tool_calls = reference.tool_calls
    /\ monitor.total_calls = 1
    /\ reference.total_calls = 1

Counters(m) ==
  <<m.tool_calls, m.total_calls, m.id_format_stats,
    m.total_input_tokens, m.total_output_tokens, m.current_cost_usd>>

\* C2: once should_stop is true, ingesting further events changes no counter:
\* per-tool counts, total_calls, id-format statistics, token totals and cost
\* keep the values they had.
C2_NoCountingAfterStop ==
  [][(monitor.should_stop /\ op'.name = "ingest") => Counters(monitor') = Counters(monitor)]_vars

\* C3: once should_stop is true the reader does not wait for the subprocess:
\* it is never held in the final read of the pipe while the subprocess keeps
\* its output stream open.
C3_StopReturnsWithoutWaiting ==
  (run.pc = "reading" /\ monitor.should_stop) => ~Blocked

\* C4: with the subprocess running and should_stop never set, the call has
\* failed with the timeout by Timeout plus one poll interval, and it does not
\* return normally.
C4_TimeoutFires ==
  (run.pc = "reading" /\ proc.alive /\ ~monitor.should_stop) =>
    /\ reader.pc # "returned"
    /\ now - reader.start_time > Timeout + 1 => (reader.pc = "failed" /\ reader.exc = "timeout")

\* C5: when the run is over the subprocess has been terminated or reaped
\* exactly once, on whatever path the run ended.
C5_ReleasedExactlyOnce ==
  run.pc = "done" => (proc.releases = 1 /\ ~proc.alive)

\* the state of the live monitor that analyze_completed_output must not touch
LiveState(m) ==
  <<Counters(m), m.should_stop, m.json_buffer, m.in_json_block>>

\* C6: analyze_completed_output leaves the live monitor's counts, id-format
\* distribution, cost, token totals, should_stop and buffer as they were and
\* fires no stop callback.
C6_AnalysisLeavesLiveState ==
  [][op'.name = "analyze" => (LiveState(monitor') = LiveState(monitor) /\ monitor'.fired = <<>>)]_vars

\* C7: with total-call cap N and no per-tool limits, each of the first N events
\* is counted once and leaves should_stop false, and event N + 1 is rejected:
\* not counted, total_calls = N, should_stop true.
C7_CapSequence ==
  op.name = "cap" =>
    \A k \in 1..Len(op.log) :
      /\ k <= monitor.max_total_calls =>
           (op.log[k].total = k /\ op.log[k].counted = 1 /\ ~op.log[k].stop)
      /\ k = monitor.max_total_calls + 1 =>
           (op.log[k].total = monitor.max_total_calls /\ op.log[k].counted = 0 /\ op.log[k].stop)

\* an assistant event that carries only a model and a usage with integer token counts
IsUsageEvent(line) ==
  \E ty \in {"tA", "tAs"}, md \in ModelTok, in \in {"in0", "in1"}, out \in {"out0", "out1"} :
    /\ line = UsageEvent(ty, md, in, out)
    /\ TokensOf(in) + TokensOf(out) > 0

\* C8: one usage event with i input and o output tokens, ingested by a fresh
\* monitor, adds i * p_in + o * p_out millionths of a dollar to the cost and
\* i and o to the token totals, at the rates of its model (the baseline's
\* when the model is not in the table).
C8_CostOfOneUsageEvent ==
  (steps = 1 /\ op.name = "ingest" /\ IsUsageEvent(op.arg)) =>
    /\ monitor.total_input_tokens = TokensOf(JsonLoads(op.arg).input_tokens)
    /\ monitor.total_output_tokens = TokensOf(JsonLoads(op.arg).output_tokens)
    /\ monitor.current_cost_usd =
         TokensOf(JsonLoads(op.arg).input_tokens) * PriceOf(op.arg).input
           + TokensOf(JsonLoads(op.arg).output_tokens) * PriceOf(op.arg).output

\* C9: whatever the input and the state, ingestion returns normally: no
\* exception is left travelling when _process_output_line (or an operation
\* built on it) is over.
C9_IngestNeverRaises == ~monitor.exc

\* an ingestion of an event whose fields have the wrong type is over
C9_Witness ==
  /\ op.name = "ingest"
  /\ op.arg \in {BadMessage, BadName, BadId, BadUsage}
  /\ ~monitor.exc

\* the line is one event (alone or after log text) with one tool_use item
\* of tool t whose id is a string
CarriesCallFor(line, t) ==
  \E ty \in {"tA", "tAs"}, id \in StrIdTok, nm \in StrNameTok :
    /\ NameOf(nm) = t
    /\ line \in {ToolEvent(ty, id, nm), <<"w">> \o ToolEvent(ty, id, nm)}

\* the count of t equals its limit, or total_calls equals the cap
AtLimit(m, t) ==
  \/ t \in DOMAIN m.tool_limits /\ m.tool_calls[t] = m.tool_limits[t]
  \/ m.max_total_calls # None /\ m.total_calls = m.max_total_calls

\* every registered callback was invoked with a limit's reason
AllNotified(m) ==
  \A i \in 1..Len(m.stop_callbacks) :
    \E k \in 1..Len(m.fired) :
      m.fired[k].cb = m.stop_callbacks[i].id /\ m.fired[k].reason.kind \in {"tool", "total"}

\* C10: a tool call that arrives while its tool is at its limit, or the total
\* at the cap, leaves the per-tool counts and total_calls unchanged, sets
\* should_stop, and has invoked every registered stop callback with a reason
\* when its handling returns.
C10_RejectedCall ==
  [][\A t \in Tools :
       (op'.name = "ingest" /\ CarriesCallFor(op'.arg, t) /\ AtLimit(monitor, t)) =>
         /\ monitor'.tool_calls = monitor.tool_calls
         /\ monitor'.total_calls = monitor.total_calls
         /\ monitor'.should_stop
         /\ AllNotified(monitor')]_vars

\* a call was rejected with two callbacks registered, the first of which raises
C10_Witness ==
  /\ op.name = "ingest"
  /\ \E t \in Tools : CarriesCallFor(op.arg, t) /\ AtLimit(monitor, t)
  /\ monitor.should_stop
  /\ Len(monitor.stop_callbacks) = 2
  /\ monitor.stop_callbacks[1].raises
  /\ AllNotified(monitor)

\* C11: when a usage event has been added to the cost, should_stop has been
\* set and the callbacks notified exactly when the cost now exceeds the cap
\* strictly (a cost equal to the cap stops nothing), and the event's cost is
\* in the cumulative cost.
C11_StopAboveCapOnly ==
  [][(op'.name = "usage" /\ ~monitor.should_stop /\ CostOf(op'.arg) > 0) =>
       /\ monitor'.current_cost_usd = monitor.current_cost_usd + CostOf(op'.arg)
       /\ monitor'.should_stop <=> monitor'.current_cost_usd > monitor'.max_cost_usd
       /\ monitor'.fired # <<>> <=> monitor'.current_cost_usd > monitor'.max_cost_usd]_vars

\* C12: a run that ended by budget stop or by timeout returns the text that
\* was captured from the subprocess: the result of execute_cve_repair holds
\* the captured chunks.
C12_CapturedTextDelivered ==
  (run.pc = "done" /\ run.outcome \in {"stopped", "timeout"}) =>
    run.result.text = Join(reader.output_lines)

\* C13: in every reachable state of the monitor, and in every snapshot a
\* statistics query or an analysis returned, total_calls is the sum of the
\* per-tool counts.
C13_TotalIsSumOfCounts ==
  /\ monitor.total_calls = monitor.tool_calls["Bash"] + monitor.tool_calls["Read"]
  /\ result.kind = "statistics" =>
       result.value.total_tool_calls
         = result.value.tool_calls["Bash"] + result.value.tool_calls["Read"]
  /\ result.kind = "analysis" =>
       result.value.detected_tool_calls
         = result.value.tool_breakdown["Bash"] + result.value.tool_breakdown["Read"]

\* both tools were counted and an analysis over a transcript with a tool call is over
C13_Witness ==
  /\ op.name = "analyze"
  /\ monitor.tool_calls["Bash"] > 0
  /\ monitor.tool_calls["Read"] > 0
  /\ monitor.total_calls = monitor.tool_calls["Bash"] + monitor.tool_calls["Read"]

\* C14: should_stop, once true, stays true under every operation of the
\* monitor: ingestion, statistics query, analysis, callback registration.
C14_StopIsPermanent ==
  [][monitor.should_stop => monitor'.should_stop]_vars

\* an analysis of an empty transcript is over on a monitor that had stopped
\* before it: the counts are back at zero and should_stop is still true
C14_Witness ==
  /\ op.name = "analyze"
  /\ op.arg = <<>>
  /\ monitor.total_calls = 0
  /\ monitor.should_stop

\* C15: after every ingest call the accumulation buffer holds at most
\* 50,000 characters.
C15_BufferBounded ==
  StrLen(monitor.json_buffer) <= BufferCeiling

\* C16: after an unterminated event of more than 50,000 characters, no
\* ingestion raises, and a complete event line leaves the monitor as it leaves
\* a monitor that never saw the fragment: the same counts, id formats, tokens,
\* cost, should_stop and callbacks fired, and the buffer discarded.
C16_ParsesNormallyAfterOverflow ==
  /\ ~monitor.exc
  /\ (op.name = "event" /\ op.fragments > 0) => monitor = reference

\* a tool call was counted by a monitor that had seen the long fragment
C16_Witness ==
  /\ op.name = "event"
  /\ op.fragments > 0
  /\ monitor.total_calls > 0
  /\ monitor = reference

\* C17: the tool_breakdown and detected_tool_calls that analyze_completed_output
\* returns for a transcript of whole lines are the per-tool counts and the
\* total the live run had after ingesting the same lines under the same limits.
C17_AnalysisReproducesLiveCounts ==
  result.kind = "analysis" =>
    /\ result.value.tool_breakdown = op.live.tool_calls
    /\ result.value.detected_tool_calls = op.live.total_calls

\* the live monitor analysed a transcript of three lines in which it had
\* counted calls and hit a limit
C17_Witness ==
  /\ op.name = "analyze live"
  /\ Len(op.lines) = 3
  /\ op.live.total_calls > 1
  /\ monitor.should_stop
  /\ result.value.detected_tool_calls = op.live.total_calls

\* C18: a run in which a read of the output stream failed, or in which the
\* subprocess was seen to exit with a non-zero code while should_stop was
\* never set, ends as an execution error; and a run that was stopped by a
\* budget limit never ends as an execution error.
C18_FaultsAreExecutionFailures ==
  run.pc = "done" =>
    /\ (reader.read_failed \/ (proc.returncode \notin {None, 0} /\ ~monitor.should_stop))
         => run.outcome = "error"
    /\ run.outcome = "error" => ~run.execution_stopped

\* C19: when the subprocess has exited normally and the run ends as a
\* success, the text returned is every line the subprocess wrote, once each
\* and in the order written.
C19_NormalExitReturnsAllOutput ==
  (run.pc = "done" /\ run.outcome = "success") => run.result.text = proc.output

\* C20: no operation of the monitor (ingestion, statistics query, analysis)
\* makes a per-tool count or total_calls smaller than it was.
C20_CountsNeverDecrease ==
  [][/\ monitor'.total_calls >= monitor.total_calls
     /\ \A t \in Tools : monitor'.tool_calls[t] >= monitor.tool_calls[t]]_vars

\* the calls to _handle_tool_call so far: each one adds one to an id-format count
Attempts(m) ==
  m.id_format_stats["unknown"] + m.id_format_stats["anthropic_standard"]
    + m.id_format_stats["proxy_format"] + m.id_format_stats["simplified"]
    + m.id_format_stats["custom"]

\* a line that is one complete assistant event with a single tool_use item
IsToolEvent(line) ==
  \E ty \in {"tA", "tAs"}, id \in {"idT", "idC", "idS"}, nm \in {"nBash", "nRead"} :
    line = ToolEvent(ty, id, nm)

\* C21: a line that is one complete, parseable JSON object is dispatched
\* exactly once: ingested by a fresh monitor, its one tool_use item causes one
\* increment attempt and its usage is added to the token totals once; no other
\* strategy dispatches the line again.
C21_CompleteLineDispatchedOnce ==
  (steps = 1 /\ op.name = "ingest") =>
    /\ IsToolEvent(op.arg) => Attempts(monitor) = 1
    /\ IsUsageEvent(op.arg) =>
         /\ monitor.total_input_tokens = TokensOf(JsonLoads(op.arg).input_tokens)
         /\ monitor.total_output_tokens = TokensOf(JsonLoads(op.arg).output_tokens)

\* C22: the regex fallback counts a tool call only when no structured strategy
\* parsed an event from the line: a line made of some text followed by one
\* complete tool event, ingested by a fresh monitor, causes at most one
\* increment attempt, whichever strategies looked at it.
C22_OneStrategyCountsACall ==
  (steps = 1 /\ op.name = "ingest" /\ Len(op.arg) > 1 /\ Head(op.arg) = "w"
     /\ IsToolEvent(Tail(op.arg)))
    => Attempts(monitor) <= 1

\* C23: the reader hands every line it captures to the monitor before it looks
\* at should_stop: the monitor has ingested exactly the captured lines, in the
\* order of capture, so that its counts and should_stop are those of the
\* captured text, the line that set should_stop included, and a run that was
\* stopped returns all of them.
C23_IngestedBeforeStopCheck ==
  /\ reader.ingested = Join(reader.output_lines)
  /\ Counters(monitor)
       = Counters(ProcessLines(NewMonitor(RunLimits, None, 10000000), Join(reader.output_lines)))
  /\ monitor.should_stop
       = ProcessLines(NewMonitor(RunLimits, None, 10000000), Join(reader.output_lines)).should_stop
  /\ run.outcome = "stopped" => run.result.text = reader.ingested

\* a run was stopped by a line read in the loop and has returned: the line
\* that stopped it is the last line of the returned text
C23_Witness ==
  /\ run.outcome = "stopped"
  /\ Len(run.result.text) >= 2
  /\ run.result.text[Len(run.result.text)] = ToolEvent("tAs", "idT", "nBash")
  /\ run.result.text = reader.ingested
  /\ ~reader.read_failed

\* the reason names a limit of the monitor that is reached
ReasonHolds(m, reason) ==
  CASE reason.kind = "tool" ->
         /\ reason.tool \in DOMAIN m.tool_limits
         /\ reason.limit = m.tool_limits[reason.tool]
         /\ m.tool_calls[reason.tool] >= reason.limit
    [] reason.kind = "total" ->
         reason.limit = m.max_total_calls /\ m.total_calls >= reason.limit
    [] reason.kind = "cost" ->
         reason.limit = m.max_cost_usd /\ m.current_cost_usd >= reason.limit
    [] OTHER -> FALSE

\* the callback invocations about a tool limit or the total cap
CallBreaches(fired) ==
  Cardinality({k \in 1..Len(fired) : fired[k].reason.kind \in {"tool", "total"}})

\* C24: each breach invokes every registered stop callback once, inside the
\* ingestion, in registration order and with the reason of that breach: the
\* invocations of one ingestion are rounds over all the callbacks, one round
\* for each rejected tool call (and for each cost breach), a callback that
\* raises stops neither the round nor the ingestion, and should_stop is set
\* whenever a callback was invoked.
C24_EachBreachNotifiesAll ==
  [][op'.name = "ingest" =>
       /\ ~monitor'.exc
       /\ monitor'.fired # <<>> => monitor'.should_stop
       /\ monitor'.stop_callbacks = <<>> => monitor'.fired = <<>>
       /\ monitor'.stop_callbacks # <<>> =>
            /\ Len(monitor'.fired) % Len(monitor'.stop_callbacks) = 0
            /\ \A k \in 1..Len(monitor'.fired) :
                 /\ monitor'.fired[k].cb
                      = monitor'.stop_callbacks[((k - 1) % Len(monitor'.stop_callbacks)) + 1].id
                 /\ monitor'.fired[k].reason
                      = monitor'.fired[k - ((k - 1) % Len(monitor'.stop_callbacks))].reason
                 /\ ReasonHolds(monitor', monitor'.fired[k].reason)
            /\ op'.arg # BadName =>
                 CallBreaches(monitor'.fired)
                   = Len(monitor'.stop_callbacks)
                       * ((Attempts(monitor') - Attempts(monitor))
                            - (monitor'.total_calls - monitor.total_calls))]_vars

\* one ingestion ran two rounds over two callbacks, the first of which raises
C24_Witness ==
  /\ op.name = "ingest"
  /\ Len(monitor.stop_callbacks) = 2
  /\ monitor.stop_callbacks[1].raises
  /\ Len(monitor.fired) >= 4
  /\ monitor.fired[2].cb = 2
  /\ monitor.should_stop
  /\ ~monitor.exc

C28_FlushedIsCaptured ==
  IF reader.pc \in {"returned", "failed"}
  THEN Join(run.log) = reader.output_lines
  ELSE Join(run.log) \o reader.output_chunk_buffer = reader.output_lines

\* a run stopped by the budget is over after a flush in the read loop and
\* the final flush, which carries the stopping line
C28_Witness ==
  /\ run.outcome = "stopped"
  /\ Len(run.log) = 2
  /\ Len(run.log[1]) = 2
  /\ Len(reader.output_lines) = 3
  /\ Join(run.log) = reader.output_lines

\* C27: with limits that are not negative, in every state of the monitor the
\* count of each tool with a limit is at most that limit, and total_calls is
\* at most the total-call cap when there is one.
C27_CountsWithinLimits ==
  /\ \A t \in DOMAIN monitor.tool_limits : monitor.tool_calls[t] <= monitor.tool_limits[t]
  /\ monitor.max_total_calls # None => monitor.total_calls <= monitor.max_total_calls

\* a tool stands at its limit and a further call was refused
C27_Witness ==
  /\ monitor.tool_limits = [t \in Tools |-> IF t = "Bash" THEN 2 ELSE 0]
  /\ monitor.tool_calls["Bash"] = 2
  /\ monitor.should_stop
  /\ Attempts(monitor) > monitor.total_calls

\* the line holds no marker that opens an event, is not a complete JSON
\* object and matches neither tool-call pattern
IsPlain(line) ==
  /\ FirstStart(line, 1) = 0
  /\ ~(LooksComplete(line) /\ IsJson(line))
  /\ ToolUseStarts(line) = {}
  /\ CallMatches(line) = {}

\* C29: ingesting a line without an event-opening marker, that is not a
\* complete JSON object and matches no tool-call pattern, while no block is
\* being accumulated, leaves the counts, the id-format statistics, the cost,
\* the token totals, should_stop, the buffer and its flag as they were, and
\* invokes no stop callback.
C29_PlainLineChangesNothing ==
  [][(op'.name = "ingest" /\ ~monitor.in_json_block /\ IsPlain(op'.arg)) =>
       /\ LiveState(monitor') = LiveState(monitor)
       /\ monitor'.fired = <<>>
       /\ ~monitor'.exc]_vars

\* a line of plain text was ingested by an idle monitor that had counted a call
C29_Witness ==
  /\ op.name = "ingest"
  /\ op.arg = <<"w">>
  /\ ~monitor.in_json_block
  /\ monitor.json_buffer = <<>>
  /\ monitor.total_calls > 0
  /\ monitor.fired = <<>>

\* C30: in every state of the monitor the accumulating flag is true exactly
\* when the accumulation buffer is not empty.
C30_FlagIffBuffer ==
  monitor.in_json_block <=> monitor.json_buffer # <<>>

\* a block was opened by the first part of an event and a line of text was
\* appended to it
C30_Witness ==
  /\ op.name = "ingest"
  /\ op.arg = <<"w">>
  /\ monitor.in_json_block
  /\ monitor.json_buffer = SubSeq(ToolEvent("tA", "idT", "nBash"), 1, 8) \o <<"w">>

\* the workers inside a guarded call: an image pull or a container start
Inside(g) == {w \in DOMAIN g.workers : g.workers[w].pc \in {"pulling", "starting"}}

\* C26: at any time the workers of a batch that are inside an image pull or a
\* container start are at most as many as the permits of the semaphore that
\* run_batch_cves created, and every worker that entered has given its permit
\* back when it is outside again, after a success and after a failure: the
\* permits out are those of the workers inside.
C26_GateBoundsPullsAndStarts ==
  /\ Cardinality(Inside(gate)) <= gate.max_workers
  /\ gate.value = gate.max_workers - Cardinality(Inside(gate))

\* with two permits, two workers are inside, one pulling after a failed
\* attempt and one starting its container, while a third has returned from a
\* pull that failed for the last time
C26_Witness ==
  /\ gate.max_workers = 2
  /\ gate.value = 0
  /\ \E u, v, w \in DOMAIN gate.workers :
       /\ gate.workers[u].pc = "pulling" /\ gate.workers[u].attempt > 0
       /\ gate.workers[v].pc = "starting"
       /\ gate.workers[w].pc = "returned" /\ gate.workers[w].stage = "docker_setup"

====
